---------------------------- MODULE Spec2Model ----------------------------
(***************************************************************************)
(* TODOtoNOTION: synchronisation of TODO comment markers with a Notion     *)
(* database.  The model follows src/src/todoSync.js (save handler and      *)
(* stamper), src/unnamed/part_000 (todoParser: parseTodos),                *)
(* src/src/notionTodo.js (syncTodos, createTodo, updateTodo, deleteTodo)   *)
(* and src/src/notionDatabase.js (fetchNotionState).                       *)
(*                                                                         *)
(* A line of text is a sequence of lexemes.  The lexemes are the pieces    *)
(* the regular expressions of the source distinguish: the comment slashes  *)
(* "//", a tag keyword, the colon, a whitespace character, the opening     *)
(* "[id:" and the closing "]" of an annotation, and characters of the      *)
(* identifier alphabet [a-z0-9-] (which are ordinary text characters too). *)
(***************************************************************************)
EXTENDS Integers, Sequences, FiniteSets, TLC

(***************************************************************************)
(* Lexemes                                                                 *)
(***************************************************************************)

\* getTodoRegex: the five tags, matched case-insensitively; "fixme" stands
\* for a tag written in lower case.
TagTokens == {"TODO", "FIXME", "BUG", "HACK", "XXX", "fixme"}

\* typeMatch[1].toUpperCase()
ToUpperCase(tok) == IF tok = "fixme" THEN "FIXME" ELSE tok

\* \s
WS == {" "}

\* Tokens produced by generateRandomId, in the order they are drawn.  Two
\* draws never collide (the 122 random bits of the source).
GenTok == <<"g1", "g2", "g3", "g4", "g5", "g6", "g7", "g8", "g9", "g10",
            "g11", "g12", "g13", "g14", "g15", "g16", "g17", "g18">>

\* [a-z0-9-] under the i flag: text characters, the letters of a tag keyword
\* and the characters of a generated identifier
IdChars == {"a", "b"} \cup TagTokens \cup {GenTok[i] : i \in DOMAIN GenTok}

\* generateRandomId: the n-th identifier drawn
generateRandomId(n) == <<GenTok[n]>>

(***************************************************************************)
(* String helpers of the JavaScript runtime                                *)
(***************************************************************************)

\* Least index k >= j with k > Len(s) or s[k] \notin S  (a greedy S*)
RECURSIVE SkipWhile(_, _, _)
SkipWhile(s, j, S) ==
    IF j > Len(s) \/ s[j] \notin S THEN j ELSE SkipWhile(s, j + 1, S)

\* Greatest index k <= j with k < 1 or s[k] \notin S
RECURSIVE SkipBack(_, _, _)
SkipBack(s, j, S) ==
    IF j < 1 \/ s[j] \notin S THEN j ELSE SkipBack(s, j - 1, S)

\* String.prototype.trimEnd
trimEnd(s) == SubSeq(s, 1, SkipBack(s, Len(s), WS))

\* String.prototype.trim
trim(s) == LET e == SkipBack(s, Len(s), WS)
               b == SkipWhile(s, 1, WS)
           IN  IF b > e THEN <<>> ELSE SubSeq(s, b, e)

\* s with the lexemes b..e removed
Cut(s, b, e) == SubSeq(s, 1, b - 1) \o SubSeq(s, e + 1, Len(s))

(***************************************************************************)
(* The regular expressions                                                 *)
(***************************************************************************)

\* /\/\/\s*(TODO|FIXME|BUG|HACK|XXX)/i anchored at i: the index of the tag,
\* or 0 when there is no match starting at i.
TagAt(s, i) ==
    IF s[i] # "//" THEN 0
    ELSE LET j == SkipWhile(s, i + 1, WS)
         IN  IF j <= Len(s) /\ s[j] \in TagTokens THEN j ELSE 0

\* Leftmost match of the tag pattern: its start, or 0.
RECURSIVE TodoMatchFrom(_, _)
TodoMatchFrom(s, i) ==
    IF i > Len(s) THEN 0
    ELSE IF TagAt(s, i) # 0 THEN i
    ELSE TodoMatchFrom(s, i + 1)

TodoMatch(s) == TodoMatchFrom(s, 1)

\* /\[id:([a-z0-9-]+)\]/i anchored at i: the index of the closing bracket,
\* or 0 when there is no match starting at i.
IdAt(s, i) ==
    IF s[i] # "[id:" THEN 0
    ELSE LET k == SkipWhile(s, i + 1, IdChars)
         IN  IF k > i + 1 /\ k <= Len(s) /\ s[k] = "]" THEN k ELSE 0

\* Leftmost match of the annotation pattern: its start, or 0.
RECURSIVE IdMatchFrom(_, _)
IdMatchFrom(s, i) ==
    IF i > Len(s) THEN 0
    ELSE IF IdAt(s, i) # 0 THEN i
    ELSE IdMatchFrom(s, i + 1)

IdMatch(s) == IdMatchFrom(s, 1)

\* Start of the leftmost match of /\s*\[id:[a-z0-9-]+\]$/i, or 0.  The
\* annotation must end the string; the match begins with the whitespace
\* run in front of it.
TrailingIdMatch(s) ==
    IF Len(s) = 0 \/ s[Len(s)] # "]" THEN 0
    ELSE LET p == SkipBack(s, Len(s) - 1, IdChars)
         IN  IF p >= 1 /\ p < Len(s) - 1 /\ s[p] = "[id:"
             THEN SkipBack(s, p - 1, WS) + 1
             ELSE 0

(***************************************************************************)
(* Marker Extractor: parseTodos                                            *)
(***************************************************************************)

\* The constant status of a parsed marker
NotStarted == "Not started"

\* todoText: trim, strip the tag prefix /\/\/\s*(TAG)\s*[:\s]*/i, trim,
\* strip the first annotation, trim.
StripPrefix(s) ==
    LET m == TodoMatch(s)
    IN  IF m = 0 THEN s
        ELSE Cut(s, m, SkipWhile(s, TagAt(s, m) + 1, WS \cup {":"}) - 1)

StripIdPart(s) ==
    LET m == IdMatch(s)
    IN  IF m = 0 THEN s ELSE Cut(s, m, IdAt(s, m))

todoText(lineText) == trim(StripIdPart(trim(StripPrefix(trim(lineText)))))

\* type: the tag of the first match, upper-cased
todoType(lineText) ==
    LET m == TodoMatch(lineText)
    IN  IF m = 0 THEN "TODO" ELSE ToUpperCase(lineText[TagAt(lineText, m)])

\* A parser that overlooks the annotation
EmbeddedIdNone(lineText) == <<>>

\* idMatch[1], or <<>> when the line carries no annotation
EmbeddedId(lineText) ==
    LET m == IdMatch(lineText)
    IN  IF m = 0 THEN <<>> ELSE SubSeq(lineText, m + 1, IdAt(lineText, m) - 1)

\* The record parseTodos pushes for line i (0-based) of a document; n is
\* the number of the next identifier generateRandomId would draw.
ParseLine(lineText, i, fsPath, n) ==
    [ text       |-> todoText(lineText),
      type       |-> todoType(lineText),
      status     |-> NotStarted,
      filePath   |-> fsPath,
      lineNumber |-> i + 1,
      line       |-> i,
      id         |-> IF EmbeddedId(lineText) # <<>>
                     THEN EmbeddedId(lineText)
                     ELSE generateRandomId(n) ]

(***************************************************************************)
(* Stamper: the line rewrite of injectTodoIds                              *)
(***************************************************************************)

\* A rewrite that leaves the old annotation in place
StripTrailingIdNot(lineText) == lineText

\* lineText.replace(/\s*\[id:[a-z0-9-]+\]$/i, '')
StripTrailingId(lineText) ==
    LET m == TrailingIdMatch(lineText)
    IN  IF m = 0 THEN lineText ELSE SubSeq(lineText, 1, m - 1)

\* A rewrite that appends to the line as it is, trailing whitespace kept
StampLineUntrimmed(lineText, id) ==
    StripTrailingId(lineText) \o <<" ", "[id:">> \o id \o <<"]">>

\* newLineText
StampLine(lineText, id) ==
    trimEnd(StripTrailingId(lineText)) \o <<" ", "[id:">> \o id \o <<"]">>


(***************************************************************************)
(* State                                                                   *)
(***************************************************************************)

VARIABLES
    buffer,             \* buffer[f]: the lines of document f
    todoCache,          \* todoCache[f]: the Local Cache of f (extension.js:15)
    skipNextSaveForUri, \* skipNextSaveForUri[f] (todoSync.js:10)
    saveEvents,         \* saveEvents[f]: programmatic saves not yet handled
    pages,              \* the pages of the Notion database, by page key
    schema,             \* the property schema of the Notion database
    credentials,        \* what getCredentials returns
    passes,             \* the push passes started so far, oldest first
    idsDrawn,           \* how many identifiers generateRandomId has drawn
    user,               \* how many saves and edits the user has made
    faults,             \* how many calls have failed or been declined
    pull,               \* the pull pass (syncNotionToCode) and what it did
    flagLog,            \* flagLog[f]: save handler runs of f, the runs that
                        \* were skipped, and the times the flag was set
    lab                 \* one marker line taken through extraction and stamping

sysvars == <<buffer, todoCache, skipNextSaveForUri, saveEvents, pages, schema,
             credentials, passes, idsDrawn, user, faults, pull, flagLog>>

vars == <<buffer, todoCache, skipNextSaveForUri, saveEvents, pages, schema,
          credentials, passes, idsDrawn, user, faults, pull, flagLog, lab>>

(***************************************************************************)
(* Documents, configuration and bounds                                     *)
(***************************************************************************)

Files == {"f1"}

\* The user saves at most MaxSaves times and edits at most MaxEdits times;
\* at most MaxFaults calls of a run fail (a remote call that fails, an edit
\* the host declines)
MaxSaves == 2
MaxEdits == 1
MaxFaults == 1

\* The results a call can have with the faults left
MayFail == IF faults < MaxFaults THEN BOOLEAN ELSE {TRUE}

\* parseTodos: const maxTodos = 50
maxTodos == 50

\* syncTodosOnSave: .slice(0, 100)
sliceLimit == 100

lnPlain == <<"//", " ", "TODO", ":", " ", "a">>
lnTrail == <<"//", "fixme", " ", "b", " ">>
lnMid   == <<"//", "TODO", " ", "[id:", "a", "]", " ", "b">>
lnCode  == <<"a", " ", "b">>

\* The documents a run starts from
InitialDocs == { <<lnPlain, lnTrail>>, <<lnCode, lnMid>> }

\* describeSchema: which optional properties the database has.  The three
\* essential ones (Name, Type, Status) always exist.
SchemaChoices ==
    { [FilePath |-> TRUE,  LineNumber |-> TRUE,  TODO_ID |-> TRUE],
      [FilePath |-> TRUE,  LineNumber |-> TRUE,  TODO_ID |-> FALSE],
      [FilePath |-> FALSE, LineNumber |-> FALSE, TODO_ID |-> TRUE] }

FullSchema == [FilePath |-> TRUE, LineNumber |-> TRUE, TODO_ID |-> TRUE]

Configured == [token |-> TRUE, databaseId |-> TRUE]

CredentialChoices ==
    { Configured,
      [token |-> FALSE, databaseId |-> TRUE],
      [token |-> TRUE,  databaseId |-> FALSE] }

\* A check that takes any credentials as complete
NotConfiguredNever(cr) == FALSE

\* !token || !databaseId
NotConfigured(cr) == ~cr.token \/ ~cr.databaseId

(***************************************************************************)
(* Marker Extractor: the loop of parseTodos                                *)
(***************************************************************************)

\* A loop without the limit on the number of records
RECURSIVE ParseFromNoLimit(_, _, _, _, _)
ParseFromNoLimit(lines, i, fsPath, todos, n) ==
    IF ~(i < Len(lines)) THEN todos
    ELSE IF TodoMatch(lines[i + 1]) = 0
         THEN ParseFromNoLimit(lines, i + 1, fsPath, todos, n)
         ELSE LET t == ParseLine(lines[i + 1], i, fsPath, n + 1)
                  m == IF EmbeddedId(lines[i + 1]) # <<>> THEN n ELSE n + 1
              IN  ParseFromNoLimit(lines, i + 1, fsPath, Append(todos, t), m)

\* The records of lines i+1.. of a document, appended to todos; n
\* identifiers have been drawn so far.
RECURSIVE ParseFrom(_, _, _, _, _)
ParseFrom(lines, i, fsPath, todos, n) ==
    IF ~(i < Len(lines) /\ Len(todos) < maxTodos) THEN todos
    ELSE IF TodoMatch(lines[i + 1]) = 0
         THEN ParseFrom(lines, i + 1, fsPath, todos, n)
         ELSE LET t == ParseLine(lines[i + 1], i, fsPath, n + 1)
                  m == IF EmbeddedId(lines[i + 1]) # <<>> THEN n ELSE n + 1
              IN  ParseFrom(lines, i + 1, fsPath, Append(todos, t), m)

parseTodos(lines, fsPath, n) == ParseFrom(lines, 0, fsPath, <<>>, n)

\* How many identifiers parseTodos draws on a document
RECURSIVE Unassigned(_, _)
Unassigned(lines, i) ==
    IF i > Len(lines) THEN 0
    ELSE (IF TodoMatch(lines[i]) # 0 /\ EmbeddedId(lines[i]) = <<>>
          THEN 1 ELSE 0) + Unassigned(lines, i + 1)

\* Array.prototype.slice(0, n)
Slice(s, n) == SubSeq(s, 1, IF Len(s) < n THEN Len(s) ELSE n)

(***************************************************************************)
(* Local Cache: a JavaScript object keyed by identifier, as the sequence   *)
(* of its values in key insertion order                                    *)
(***************************************************************************)

CacheKeys(c) == {c[i].id : i \in DOMAIN c}

CacheGet(c, id) == c[CHOOSE i \in DOMAIN c : c[i].id = id]

\* cache[todo.id] = todo
CachePut(c, todo) ==
    IF todo.id \in CacheKeys(c)
    THEN [i \in DOMAIN c |-> IF c[i].id = todo.id THEN todo ELSE c[i]]
    ELSE Append(c, todo)

\* todoCache[uriStr] = {}; todos.forEach(todo => ... [todo.id] = todo)
RECURSIVE CacheOfFrom(_, _, _)
CacheOfFrom(todos, k, c) ==
    IF k > Len(todos) THEN c
    ELSE CacheOfFrom(todos, k + 1,
                     IF todos[k].id # <<>> THEN CachePut(c, todos[k]) ELSE c)

CacheOf(todos) == CacheOfFrom(todos, 1, <<>>)

(***************************************************************************)
(* Remote State Snapshot: fetchNotionState                                 *)
(***************************************************************************)

\* The value of a lineNumber that was never assigned
undefined == 0

\* A page as the database stores it.  Line Number is written as rich text
\* holding String(lineNumber).
RichText(n) == [type |-> "rich_text", val |-> n]
NoValue == [type |-> "none", val |-> 0]

\* The task object fetchNotionState maps page number key to
TaskOf(page, key) ==
    [ id         |-> key,
      customId   |-> page.TODO_ID,
      text       |-> page.Name,
      filePath   |-> page.FilePath,
      lineNumber |-> IF page.LineNumber.type = "number"
                     THEN page.LineNumber.val ELSE undefined,
      type       |-> page.Type,
      status     |-> page.Status ]

\* databases.query lists the pages that are not archived
RECURSIVE QueryFrom(_, _)
QueryFrom(pgs, key) ==
    IF key > Len(pgs) THEN <<>>
    ELSE (IF pgs[key].archived THEN <<>> ELSE <<TaskOf(pgs[key], key)>>)
         \o QueryFrom(pgs, key + 1)

fetchNotionState(pgs, ok) == IF ok THEN QueryFrom(pgs, 1) ELSE <<>>

\* customIdToPageId: the last task with a customId wins
customIdToPageId(tasks) ==
    [ cid \in {tasks[i].customId : i \in DOMAIN tasks} \ {<<>>} |->
        LET last == CHOOSE i \in DOMAIN tasks :
                       /\ tasks[i].customId = cid
                       /\ \A j \in DOMAIN tasks :
                             tasks[j].customId = cid => j <= i
        IN  tasks[last].id ]

\* notionTaskByPageId[key]
notionTaskByPageId(tasks, key) ==
    tasks[CHOOSE i \in DOMAIN tasks : tasks[i].id = key]

(***************************************************************************)
(* Remote collaborator: the requests of createTodo, updateTodo, deleteTodo *)
(***************************************************************************)

\* listDatabaseProperties: the schema, or null when the call fails
listDatabaseProperties(sch, ok) == [ok |-> ok, has |-> sch]

\* A properties object with every optional field, whatever the schema
PropertiesAll(todo, db) ==
    [ Name       |-> todo.text,
      Type       |-> IF todo.type = "" THEN "TODO" ELSE todo.type,
      Status     |-> IF todo.status = "" THEN "Not started" ELSE todo.status,
      FilePath   |-> todo.filePath,
      LineNumber |-> [type |-> "rich_text", val |-> todo.lineNumber],
      TODO_ID    |-> todo.id ]

\* The properties object createTodo and updateTodo build: the essential
\* ones always, an optional one when the schema has it and the record
\* carries a value for it.
Properties(todo, db) ==
    [ Name       |-> todo.text,
      Type       |-> IF todo.type = "" THEN "TODO" ELSE todo.type,
      Status     |-> IF todo.status = "" THEN NotStarted ELSE todo.status,
      FilePath   |-> IF db.ok /\ db.has.FilePath /\ todo.filePath # ""
                     THEN todo.filePath ELSE "",
      LineNumber |-> IF db.ok /\ db.has.LineNumber
                        /\ todo.lineNumber # undefined
                     THEN RichText(todo.lineNumber) ELSE NoValue,
      TODO_ID    |-> IF db.ok /\ db.has.TODO_ID /\ todo.id # <<>>
                     THEN todo.id ELSE <<>> ]

\* pages.create: the page the database stores
NewPage(props) ==
    [ Name |-> props.Name, Type |-> props.Type, Status |-> props.Status,
      FilePath |-> props.FilePath, LineNumber |-> props.LineNumber,
      TODO_ID |-> props.TODO_ID, archived |-> FALSE ]

\* pages.update with properties: the properties sent replace the stored ones
UpdatedPage(page, props) ==
    [ page EXCEPT
        !.Name = props.Name, !.Type = props.Type, !.Status = props.Status,
        !.FilePath = IF props.FilePath # "" THEN props.FilePath ELSE @,
        !.LineNumber = IF props.LineNumber # NoValue
                       THEN props.LineNumber ELSE @,
        !.TODO_ID = IF props.TODO_ID # <<>> THEN props.TODO_ID ELSE @ ]

\* createTodo: the database after the call (the new page has the next key)
createTodo(pgs, todo, db) == Append(pgs, NewPage(Properties(todo, db)))

\* updateTodo: the database after the call
updateTodo(pgs, pageId, updates, db) ==
    [pgs EXCEPT ![pageId] = UpdatedPage(@, Properties(updates, db))]

\* A page_id that names the first page of the database
PageIdOfFirst(todoId) == 1

\* The page key a value handed to deleteTodo as todoId names.  syncTodos
\* hands it cachedTodos[cachedId], a record of parseTodos and not a page key:
\* no page has it as its key.
NoPage == 0
PageIdOf(todoId) == NoPage

\* A deletion that removes the pages carrying the identifier of todoId
deleteTodoHard(pgs, todoId) ==
    SelectSeq(pgs, LAMBDA pg : pg.TODO_ID # todoId.id)

\* deleteTodo: pages.update({page_id: todoId, archived: true}); the database
\* after the call.  A page_id that names no page changes nothing.
deleteTodo(pgs, todoId) ==
    IF PageIdOf(todoId) \in DOMAIN pgs
    THEN [pgs EXCEPT ![PageIdOf(todoId)] = [@ EXCEPT !.archived = TRUE]]
    ELSE pgs

(***************************************************************************)
(* Reconciliation: the classification of syncTodos                         *)
(***************************************************************************)

\* A join that finds no record: every record is taken as new
ExistsInNotionNever(index, todo) == FALSE

\* if (customIdToPageId[todo.id])
ExistsInNotion(index, todo) == todo.id \in DOMAIN index

\* needsUpdate: strict inequality of any compared field
needsUpdate(notionTask, todo) ==
    \/ notionTask.text # todo.text
    \/ notionTask.filePath # todo.filePath
    \/ notionTask.lineNumber # todo.lineNumber
    \/ notionTask.type # todo.type
    \/ notionTask.status # todo.status

\* The cached identifiers syncTodos marks for deletion, in key order: those
\* the remote index does not hold.  The value pushed is cachedTodos[cachedId].
RECURSIVE MarkDeleted(_, _, _)
MarkDeleted(cachedTodos, index, i) ==
    IF i > Len(cachedTodos) THEN <<>>
    ELSE (IF cachedTodos[i].id \notin DOMAIN index
          THEN <<cachedTodos[i]>> ELSE <<>>)
         \o MarkDeleted(cachedTodos, index, i + 1)

(***************************************************************************)
(* A push pass: syncTodosOnSave                                            *)
(***************************************************************************)

\* A pass that reads the cache entries of the other documents as well
NewPassSharedCache(f, todos, cachedTodos) ==
    [ file        |-> f,
      todos       |-> todos,
      cachedTodos |-> IF \E g \in DOMAIN todoCache : g # f
                      THEN cachedTodos \o
                           todoCache[CHOOSE g \in DOMAIN todoCache : g # f]
                      ELSE cachedTodos,
      pc          |-> "fetch",
      configured  |-> TRUE,
      fetched     |-> FALSE,
      tasks       |-> <<>>,
      index       |-> <<>>,
      k           |-> 1,
      created     |-> <<>>,
      updated     |-> <<>>,
      deleted     |-> <<>>,
      d           |-> 1,
      calls       |-> <<>>,
      applied     |-> FALSE,
      doc0        |-> buffer[f],
      doc1        |-> <<>>,
      edits       |-> user.edits,
      npages      |-> Len(pages) ]

\* A pass right after the synchronous part of syncTodosOnSave
NewPass(f, todos, cachedTodos) ==
    [ file        |-> f,
      todos       |-> todos,
      cachedTodos |-> cachedTodos,
      pc          |-> "fetch",
      configured  |-> TRUE,
      fetched     |-> FALSE,
      tasks       |-> <<>>,
      index       |-> <<>>,
      k           |-> 1,
      created     |-> <<>>,
      updated     |-> <<>>,
      deleted     |-> <<>>,
      d           |-> 1,
      calls       |-> <<>>,
      applied     |-> FALSE,
      doc0        |-> buffer[f],
      doc1        |-> <<>>,
      edits       |-> user.edits,
      npages      |-> Len(pages) ]

\* The passes a new pass is recorded after: those in flight and the latest
\* one that ended (the ones before it are of no further interest)
Recent(ps) ==
    SelectSeq(ps, LAMBDA q : q.pc # "done") \o
    (IF \E i \in DOMAIN ps : ps[i].pc = "done"
     THEN <<ps[CHOOSE i \in DOMAIN ps :
                 /\ ps[i].pc = "done"
                 /\ \A j \in DOMAIN ps : ps[j].pc = "done" => j <= i]>>
     ELSE <<>>)

\* A save handler with one flag for all documents
SaveHandlerOneFlag(f) ==
    IF \E g \in DOMAIN buffer : skipNextSaveForUri[g]
    THEN /\ skipNextSaveForUri' = [g \in DOMAIN buffer |-> FALSE]
         /\ flagLog' = [flagLog EXCEPT ![f].handled = @ + 1,
                                       ![f].skipped = @ + 1]
         /\ UNCHANGED <<passes, idsDrawn>>
    ELSE LET todos == Slice(parseTodos(buffer[f], f, idsDrawn), sliceLimit)
         IN  /\ idsDrawn + Unassigned(buffer[f], 1) <= Len(GenTok)
             /\ idsDrawn' = idsDrawn + Unassigned(buffer[f], 1)
             /\ passes' = IF Len(todos) = 0 THEN passes
                          ELSE Append(Recent(passes),
                                      NewPass(f, todos, todoCache[f]))
             /\ flagLog' = [flagLog EXCEPT ![f].handled = @ + 1]
             /\ UNCHANGED skipNextSaveForUri

\* The save handler, up to the call of notion.syncTodos
SaveHandler(f) ==
    IF skipNextSaveForUri[f]
    THEN /\ skipNextSaveForUri' = [skipNextSaveForUri EXCEPT ![f] = FALSE]
         /\ flagLog' = [flagLog EXCEPT ![f].handled = @ + 1,
                                       ![f].skipped = @ + 1]
         /\ UNCHANGED <<passes, idsDrawn>>
    ELSE LET todos == Slice(parseTodos(buffer[f], f, idsDrawn), sliceLimit)
         IN  /\ idsDrawn + Unassigned(buffer[f], 1) <= Len(GenTok)
             /\ idsDrawn' = idsDrawn + Unassigned(buffer[f], 1)
             /\ passes' = IF Len(todos) = 0 THEN passes
                          ELSE Append(Recent(passes),
                                      NewPass(f, todos, todoCache[f]))
             /\ flagLog' = [flagLog EXCEPT ![f].handled = @ + 1]
             /\ UNCHANGED skipNextSaveForUri

\* No pass is between its extraction and the end of its stamping
NoPassInFlight == \A i \in DOMAIN passes : passes[i].pc = "done"

\* Most saves the user makes in a run: MaxSaves, and one more for every
\* further document
SaveBudget == MaxSaves + Cardinality(DOMAIN buffer) - 1

\* onDidSaveTextDocument for a save the user made of document f
Saves(f) ==
    /\ user.saves < SaveBudget
    /\ user' = [user EXCEPT !.saves = @ + 1]
    /\ SaveHandler(f)
    /\ UNCHANGED <<buffer, todoCache, saveEvents, pages, schema, credentials,
                   faults, pull, lab>>

\* The user saves document f, after the pass of an earlier save has ended
UserSave(f) == NoPassInFlight /\ Saves(f)

\* onDidSaveTextDocument for a document.save() of injectTodoIds
SaveEvent(f) ==
    /\ saveEvents[f] > 0
    /\ saveEvents' = [saveEvents EXCEPT ![f] = @ - 1]
    /\ SaveHandler(f)
    /\ UNCHANGED <<buffer, todoCache, pages, schema, credentials, user, faults,
                   pull, lab>>

\* The save event of a document.save() of injectTodoIds arrives, no pass
\* being in flight
ProgrammaticSave(f) == NoPassInFlight /\ SaveEvent(f)

\* The state of syncTodos after its loop over todos: the deletions marked
AfterLoop(p) ==
    LET del == IF Len(p.cachedTodos) > 0
               THEN MarkDeleted(p.cachedTodos, p.index, 1) ELSE <<>>
    IN  [p EXCEPT !.deleted = del,
                  !.pc = IF Len(del) > 0 THEN "delete" ELSE "then"]

\* syncTodos: the credentials check and fetchNotionState
Fetch(i) ==
    /\ passes[i].pc = "fetch"
    /\ IF NotConfigured(credentials)
       THEN /\ passes' = [passes EXCEPT ![i] =
                            [@ EXCEPT !.pc = "then", !.configured = FALSE]]
            /\ UNCHANGED faults
       ELSE \E ok \in MayFail :
               LET tasks == fetchNotionState(pages, ok)
               IN  /\ passes' = [passes EXCEPT ![i] =
                          [@ EXCEPT !.pc = "loop", !.fetched = ok,
                                    !.tasks = tasks,
                                    !.index = customIdToPageId(tasks)]]
                   /\ faults' = IF ok THEN faults ELSE faults + 1
    /\ UNCHANGED <<buffer, todoCache, skipNextSaveForUri, saveEvents, pages,
                   schema, credentials, idsDrawn, user, pull,
                   flagLog, lab>>

\* What a create or update call can come to: it succeeds, it succeeds after
\* listDatabaseProperties failed, or it fails
Outcomes == IF faults < MaxFaults THEN {"ok", "no schema", "failed"}
            ELSE {"ok"}

\* A loop that hands over to the deletions before its last iteration
NextTodoEarly(p) ==
    IF p.k >= Len(p.todos) - 1 THEN AfterLoop([p EXCEPT !.k = p.k + 1])
    ELSE [p EXCEPT !.k = p.k + 1]

\* A loop that ends at the first call that failed
NextTodoAbort(p) ==
    IF \/ p.k = Len(p.todos)
       \/ (p.calls # <<>> /\ ~p.calls[Len(p.calls)].ok)
    THEN AfterLoop([p EXCEPT !.k = Len(p.todos) + 1])
    ELSE [p EXCEPT !.k = p.k + 1]

\* The pass after iteration p.k of the loop over todos
NextTodo(p) ==
    IF p.k = Len(p.todos) THEN AfterLoop([p EXCEPT !.k = p.k + 1])
    ELSE [p EXCEPT !.k = p.k + 1]

\* syncTodos: one iteration of the loop over todos
ProcessTodo(i) ==
    /\ passes[i].pc = "loop"
    /\ LET p    == passes[i]
           todo == p.todos[p.k]
       IN  IF ExistsInNotion(p.index, todo)
           THEN LET notionPageId == p.index[todo.id]
                    notionTask   == notionTaskByPageId(p.tasks, notionPageId)
                IN  IF needsUpdate(notionTask, todo)
                    THEN \E out \in Outcomes :
                           LET db == listDatabaseProperties(schema, out = "ok")
                               call == [op |-> "update", id |-> todo.id,
                                        page |-> notionPageId,
                                        ok |-> out # "failed",
                                        described |-> out = "ok"]
                           IN  /\ pages' = IF out = "failed" THEN pages
                                           ELSE updateTodo(pages, notionPageId,
                                                           todo, db)
                               /\ passes' = [passes EXCEPT ![i] = NextTodo(
                                     [p EXCEPT !.calls = Append(@, call),
                                        !.updated = IF out = "failed" THEN @
                                                    ELSE Append(@, todo)])]
                               /\ faults' = IF out = "ok" THEN faults
                                            ELSE faults + 1
                    ELSE /\ passes' = [passes EXCEPT ![i] = NextTodo(p)]
                         /\ UNCHANGED <<pages, faults>>
           ELSE \E out \in Outcomes :
                  LET db == listDatabaseProperties(schema, out = "ok")
                      call == [op |-> "create", id |-> todo.id,
                               page |-> IF out = "failed" THEN NoPage
                                        ELSE Len(pages) + 1,
                               ok |-> out # "failed",
                               described |-> out = "ok"]
                  IN  /\ pages' = IF out = "failed" THEN pages
                                  ELSE createTodo(pages, todo, db)
                      /\ passes' = [passes EXCEPT ![i] = NextTodo(
                            [p EXCEPT !.calls = Append(@, call),
                               !.created = IF out = "failed" THEN @
                                           ELSE Append(@, todo)])]
                      /\ faults' = IF out = "ok" THEN faults ELSE faults + 1
    /\ UNCHANGED <<buffer, todoCache, skipNextSaveForUri, saveEvents, schema,
                   credentials, idsDrawn, user, pull,
                   flagLog, lab>>

\* syncTodos: one iteration of the loop over deleted
DeleteMarked(i) ==
    /\ passes[i].pc = "delete"
    /\ LET p      == passes[i]
           todoId == p.deleted[p.d]
           pageId == PageIdOf(todoId)
       IN  \E ok \in MayFail :
             LET success == ok /\ pageId \in DOMAIN pages
                 call == [op |-> "archive", id |-> todoId.id,
                          page |-> pageId, ok |-> success,
                          described |-> TRUE]
             IN  /\ pages' = IF ok THEN deleteTodo(pages, todoId) ELSE pages
                 /\ passes' = [passes EXCEPT ![i] =
                       [p EXCEPT !.calls = Append(@, call),
                                 !.d = p.d + 1,
                                 !.pc = IF p.d = Len(p.deleted)
                                        THEN "then" ELSE "delete"]]
                 /\ faults' = IF ok THEN faults ELSE faults + 1
    /\ UNCHANGED <<buffer, todoCache, skipNextSaveForUri, saveEvents, schema,
                   credentials, idsDrawn, user, pull,
                   flagLog, lab>>

\* A continuation that merges the records into the cache of the file
CacheAndInjectMerge(i) ==
    /\ passes[i].pc = "then"
    /\ todoCache' = [todoCache EXCEPT ![passes[i].file] =
                        CacheOfFrom(passes[i].todos, 1, @)]
    /\ passes' = [passes EXCEPT ![i] = [@ EXCEPT !.pc = "edit"]]
    /\ UNCHANGED <<buffer, skipNextSaveForUri, saveEvents, pages, schema,
                   credentials, idsDrawn, user, faults, pull,
                   flagLog, lab>>

\* syncTodosOnSave: the continuation of notion.syncTodos.  The cache of the
\* file is replaced and injectTodoIds asks for the editor.
CacheAndInject(i) ==
    /\ passes[i].pc = "then"
    /\ todoCache' = [todoCache EXCEPT ![passes[i].file] =
                        CacheOf(passes[i].todos)]
    /\ passes' = [passes EXCEPT ![i] = [@ EXCEPT !.pc = "edit"]]
    /\ UNCHANGED <<buffer, skipNextSaveForUri, saveEvents, pages, schema,
                   credentials, idsDrawn, user, faults, pull,
                   flagLog, lab>>

\* The document after the edit callback of injectTodoIds: every record's
\* line, as it reads now, rewritten with the record's identifier
RECURSIVE StampedDoc(_, _, _)
StampedDoc(lines, todos, k) ==
    IF k > Len(todos) THEN lines
    ELSE StampedDoc(
            [lines EXCEPT ![todos[k].line + 1] = StampLine(@, todos[k].id)],
            todos, k + 1)

\* injectTodoIds: the edit and what follows it.  lineAt throws for a line
\* the document no longer has, and the edit is then not made; the host may
\* decline the edit.  An applied edit sets the flag and saves the document;
\* the save of a document the edit left as it was may raise no save event.
InjectTodoIds(i) ==
    /\ passes[i].pc = "edit"
    /\ LET p == passes[i]
           f == p.file
           inRange == \A k \in DOMAIN p.todos : p.todos[k].line < Len(buffer[f])
       IN  IF ~inRange
           THEN /\ passes' = [passes EXCEPT ![i] =
                      [p EXCEPT !.pc = "done", !.doc1 = buffer[f]]]
                /\ UNCHANGED <<buffer, skipNextSaveForUri, saveEvents, faults,
                               flagLog>>
           ELSE \E applied \in MayFail :
                  LET doc == StampedDoc(buffer[f], p.todos, 1)
                  IN  IF applied
                      THEN /\ buffer' = [buffer EXCEPT ![f] = doc]
                           /\ skipNextSaveForUri' =
                                 [skipNextSaveForUri EXCEPT ![f] = TRUE]
                           /\ flagLog' = [flagLog EXCEPT ![f].sets = @ + 1]
                           /\ \E fires \in (IF doc # buffer[f]
                                            THEN {TRUE} ELSE BOOLEAN) :
                                 saveEvents' = [saveEvents EXCEPT ![f] =
                                                  IF fires THEN @ + 1 ELSE @]
                           /\ passes' = [passes EXCEPT ![i] =
                                 [p EXCEPT !.pc = "done", !.applied = TRUE,
                                           !.doc1 = doc]]
                           /\ UNCHANGED faults
                      ELSE /\ passes' = [passes EXCEPT ![i] =
                                 [p EXCEPT !.pc = "done",
                                           !.doc1 = buffer[f]]]
                           /\ faults' = faults + 1
                           /\ UNCHANGED <<buffer, skipNextSaveForUri,
                                          saveEvents, flagLog>>
    /\ UNCHANGED <<todoCache, pages, schema, credentials, idsDrawn, user, pull,
                   lab>>

(***************************************************************************)
(* The user at the editor                                                  *)
(***************************************************************************)

\* Line n of document f is removed in the editor
DeleteLine(f, n) ==
    /\ user.edits < MaxEdits
    /\ n \in DOMAIN buffer[f]
    /\ buffer' = [buffer EXCEPT ![f] = Cut(@, n, n)]
    /\ user' = [user EXCEPT !.edits = @ + 1]
    /\ UNCHANGED <<todoCache, skipNextSaveForUri, saveEvents, pages, schema,
                   credentials, passes, idsDrawn, faults, pull,
                   flagLog, lab>>

\* The user removes line n of document f, no pass being in flight (an edit
\* counts while a save can still follow it)
UserDeleteLine(f, n) ==
    user.saves < MaxSaves /\ NoPassInFlight /\ DeleteLine(f, n)

\* Line n of document f is copied and pasted below in the editor
CopyLine(f, n) ==
    /\ user.edits < MaxEdits
    /\ n \in DOMAIN buffer[f]
    /\ buffer' = [buffer EXCEPT ![f] =
                     SubSeq(@, 1, n) \o <<@[n]>> \o SubSeq(@, n + 1, Len(@))]
    /\ user' = [user EXCEPT !.edits = @ + 1]
    /\ UNCHANGED <<todoCache, skipNextSaveForUri, saveEvents, pages, schema,
                   credentials, passes, idsDrawn, faults, pull,
                   flagLog, lab>>

\* The user copies line n of document f and pastes it below, no pass being
\* in flight
UserCopyLine(f, n) ==
    user.saves < MaxSaves /\ NoPassInFlight /\ CopyLine(f, n)

(***************************************************************************)
(* The pull pass: syncNotionToCode                                         *)
(***************************************************************************)

\* Most pull commands, and most changes made in Notion, in a run
MaxPulls == 1
MaxRemoteEdits == 1

\* No pull pass has been asked for
NoPull == [pc |-> "idle", listed |-> FALSE, tasks |-> <<>>, threw |-> FALSE,
           raised |-> FALSE, docs |-> <<>>, deletes |-> <<>>, updates |-> <<>>]

\* The page id Notion gives the page with key k, as a string of the id
\* alphabet
RECURSIVE PageIdString(_)
PageIdString(k) == IF k = 0 THEN <<"-">> ELSE <<"a">> \o PageIdString(k - 1)

\* scanDocumentsForTodos: idRegex, /\/\/\s*(TAG)\s*\[id:([a-z0-9-]+)\]\s*(.*)/i,
\* anchored at i: the index of the annotation, or 0.
ScanIdAt(s, i) ==
    IF TagAt(s, i) = 0 THEN 0
    ELSE LET j == SkipWhile(s, TagAt(s, i) + 1, WS)
         IN  IF j <= Len(s) /\ IdAt(s, j) # 0 THEN j ELSE 0

RECURSIVE ScanIdFrom(_, _)
ScanIdFrom(s, i) ==
    IF i > Len(s) THEN 0
    ELSE IF ScanIdAt(s, i) # 0 THEN ScanIdAt(s, i)
    ELSE ScanIdFrom(s, i + 1)

\* idMatch ? idMatch[2] : null, null being <<>>; j is the index of the
\* annotation idRegex matches, or 0
ScanId(lineText) ==
    CHOOSE id \in
       { IF j = 0 THEN <<>> ELSE SubSeq(lineText, j + 1, IdAt(lineText, j) - 1) :
         j \in {ScanIdFrom(lineText, 1)} } : TRUE

\* The line of the first match of regex.exec(text), or 0.  The lines of the
\* model do not end in "//", so a match lies within one line.
RECURSIVE FirstMarker(_, _)
FirstMarker(lines, n) ==
    IF n > Len(lines) THEN 0
    ELSE IF TodoMatch(lines[n]) # 0 THEN n
    ELSE FirstMarker(lines, n + 1)

\* The while loop of scanDocumentsForTodos, entered with todos.length =
\* length: the records todos.push(todo) adds until todos.length reaches
\* limit
RECURSIVE PushUntil(_, _, _)
PushUntil(length, todo, limit) ==
    IF ~(length < limit) THEN <<>>
    ELSE <<todo>> \o PushUntil(length + 1, todo, limit)

\* scanDocumentsForTodos: the forEach callback on the document at position
\* idx (0-based) of Object.values(openDocuments).  The regex has no g flag,
\* so regex.exec(text) returns the first match of the text at every
\* iteration: the loop pushes the record of that one line until
\* todos.length reaches maxTodos * (idx + 1).  n is the line of that match
\* (0: no match) and todo its record, each a value of a one-element set.
ScanDocument(lines, f, idx, todos) ==
    CHOOSE out \in
       { IF n = 0 THEN todos
         ELSE todos \o PushUntil(Len(todos), todo, maxTodos * (idx + 1)) :
         <<n, todo>> \in
            { <<m, IF m = 0 THEN <<>>
                   ELSE [ text |-> trim(lines[m]), line |-> m - 1,
                          id |-> ScanId(lines[m]), uri |-> f ]>> :
              m \in {FirstMarker(lines, 1)} } } : TRUE

\* Object.values(openDocuments).forEach: the documents F still to visit,
\* in the order they were opened (f1 first)
RECURSIVE ScanAll(_, _, _, _)
ScanAll(docs, F, idx, todos) ==
    IF F = {} THEN todos
    ELSE LET f == CHOOSE g \in F : g = "f1" \/ "f1" \notin F
         IN  ScanAll(docs, F \ {f}, idx + 1,
                     ScanDocument(docs[f], f, idx, todos))

\* Line 108 of todoParser.js reads maxTodos, a const declared in the block
\* of line 83 inside the forEach callback: the name is not in scope there
\* and reading it throws a ReferenceError, whatever the documents are.
maxTodosInScope == FALSE

\* scanDocumentsForTodos: the records, and whether the call threw
scanDocumentsForTodos(docs) ==
    [ todos |-> ScanAll(docs, DOMAIN docs, 0, <<>>),
      threw |-> ~maxTodosInScope ]

\* notionMap[task.id] = task: the keys of the map, as strings
notionMap(tasks) == [i \in DOMAIN tasks |-> PageIdString(tasks[i].id)]

\* codeMap[notionId]: the record with that identifier the forEach stored
\* last, or NoCodeTodo
NoCodeTodo == [text |-> <<>>, line |-> 0, id |-> <<>>, uri |-> ""]

codeMap(todos, notionId) ==
    IF \E k \in DOMAIN todos : todos[k].id # <<>> /\ todos[k].id = notionId
    THEN todos[CHOOSE k \in DOMAIN todos :
                  /\ todos[k].id = notionId
                  /\ \A m \in DOMAIN todos : todos[m].id = notionId => m <= k]
    ELSE NoCodeTodo

\* reconcileNotionToCode: the calls of deleteTodoFromCode, in order
RECURSIVE ReconcileDeletes(_, _, _)
ReconcileDeletes(tasks, todos, i) ==
    IF i > Len(tasks) THEN <<>>
    ELSE LET codeTodo == codeMap(todos, notionMap(tasks)[i])
         IN  (IF tasks[i].status = "Archived" /\ codeTodo # NoCodeTodo
              THEN <<codeTodo>> ELSE <<>>)
             \o ReconcileDeletes(tasks, todos, i + 1)

\* reconcileNotionToCode: the calls of updateTodoInCode, in order
RECURSIVE ReconcileUpdates(_, _, _)
ReconcileUpdates(tasks, todos, i) ==
    IF i > Len(tasks) THEN <<>>
    ELSE LET codeTodo == codeMap(todos, notionMap(tasks)[i])
         IN  (IF /\ tasks[i].status # "Archived"
                 /\ codeTodo # NoCodeTodo
                 /\ tasks[i].text # <<>>
                 /\ tasks[i].text # codeTodo.text
              THEN <<[todo |-> codeTodo, newText |-> tasks[i].text]>>
              ELSE <<>>)
             \o ReconcileUpdates(tasks, todos, i + 1)

\* deleteTodoFromCode: editBuilder.delete(lineAt(todo.line).range) empties
\* the line and keeps its line break
RECURSIVE DeleteFromCode(_, _, _)
DeleteFromCode(docs, dels, k) ==
    IF k > Len(dels) THEN docs
    ELSE DeleteFromCode(
            IF dels[k].line < Len(docs[dels[k].uri])
            THEN [docs EXCEPT ![dels[k].uri][dels[k].line + 1] = <<>>]
            ELSE docs,
            dels, k + 1)

\* updateTodoInCode: editBuilder.replace(lineAt(todo.line).range, newText)
RECURSIVE UpdateInCode(_, _, _)
UpdateInCode(docs, ups, k) ==
    IF k > Len(ups) THEN docs
    ELSE UpdateInCode(
            IF ups[k].todo.line < Len(docs[ups[k].todo.uri])
            THEN [docs EXCEPT ![ups[k].todo.uri][ups[k].todo.line + 1] =
                                 ups[k].newText]
            ELSE docs,
            ups, k + 1)

\* A pull that adds a line to every document
PullEditsOrphan(docs, tasks) ==
    [f \in DOMAIN docs |-> Append(docs[f], lnPlain)]

\* The documents after the then-callback of syncNotionToCode
PullEdits(docs, tasks) ==
    LET scan == scanDocumentsForTodos(docs)
    IN  IF scan.threw THEN docs
        ELSE UpdateInCode(
                DeleteFromCode(docs, ReconcileDeletes(tasks, scan.todos, 1), 1),
                ReconcileUpdates(tasks, scan.todos, 1), 1)

\* syncNotionToCode up to notion.fetchNotionState(context), which returns []
\* without a call when the credentials are missing
SyncNotionToCode ==
    /\ user.pulls < MaxPulls
    /\ pull.pc # "then"
    /\ NoPassInFlight
    /\ user' = [user EXCEPT !.pulls = @ + 1]
    /\ \E ok \in MayFail :
          /\ pull' = [NoPull EXCEPT
                        !.pc = "then",
                        !.listed = ~NotConfigured(credentials),
                        !.tasks = IF NotConfigured(credentials) THEN <<>>
                                  ELSE fetchNotionState(pages, ok)]
          /\ faults' = IF ok THEN faults ELSE faults + 1
    /\ UNCHANGED <<buffer, todoCache, skipNextSaveForUri, saveEvents, pages,
                   schema, credentials, passes, idsDrawn, flagLog, lab>>

\* A then-callback that stores the first scanned record of every document
\* in the cache
PullThenCaching ==
    /\ pull.pc = "then"
    /\ LET scan == scanDocumentsForTodos(buffer)
       IN  /\ buffer' = PullEdits(buffer, pull.tasks)
           /\ pull' = [pull EXCEPT
                         !.pc = "done",
                         !.docs = buffer,
                         !.threw = scan.threw,
                         !.deletes = IF scan.threw THEN <<>>
                                     ELSE ReconcileDeletes(pull.tasks,
                                                           scan.todos, 1),
                         !.updates = IF scan.threw THEN <<>>
                                     ELSE ReconcileUpdates(pull.tasks,
                                                           scan.todos, 1)]
    /\ todoCache' = [f \in DOMAIN todoCache |->
                        CacheOf(Slice(ScanDocument(buffer[f], f, 0, <<>>), 1))]
    /\ UNCHANGED <<skipNextSaveForUri, saveEvents, pages, schema,
                   credentials, passes, idsDrawn, user, faults, flagLog, lab>>

\* A then-callback that never leaves the scan loop of its first document
PullThenPending ==
    /\ pull.pc = "then"
    /\ pull' = [pull EXCEPT !.docs = buffer]
    /\ UNCHANGED <<buffer, todoCache, skipNextSaveForUri, saveEvents, pages,
                   schema, credentials, passes, idsDrawn, user, faults,
                   flagLog, lab>>

\* syncNotionToCode: the then-callback, and the catch that shows the error
\* of a callback that threw
PullThen ==
    /\ pull.pc = "then"
    /\ \E scan \in {scanDocumentsForTodos(buffer)} :
           /\ buffer' = PullEdits(buffer, pull.tasks)
           /\ pull' = [pull EXCEPT
                         !.pc = "done",
                         !.docs = buffer,
                         !.threw = scan.threw,
                         !.deletes = IF scan.threw THEN <<>>
                                     ELSE ReconcileDeletes(pull.tasks,
                                                           scan.todos, 1),
                         !.updates = IF scan.threw THEN <<>>
                                     ELSE ReconcileUpdates(pull.tasks,
                                                           scan.todos, 1)]
    /\ UNCHANGED <<todoCache, skipNextSaveForUri, saveEvents, pages, schema,
                   credentials, passes, idsDrawn, user, faults, flagLog, lab>>

\* In Notion, the user sets the Status of page k to Archived
RemoteArchive(k) ==
    /\ user.remote < MaxRemoteEdits
    /\ NoPassInFlight
    /\ pages[k].Status # "Archived"
    /\ pages' = [pages EXCEPT ![k].Status = "Archived"]
    /\ user' = [user EXCEPT !.remote = @ + 1]
    /\ UNCHANGED <<buffer, todoCache, skipNextSaveForUri, saveEvents, schema,
                   credentials, passes, idsDrawn, faults, pull, flagLog, lab>>

\* In Notion, the user retitles page k
RemoteRetext(k) ==
    /\ user.remote < MaxRemoteEdits
    /\ NoPassInFlight
    /\ pages' = [pages EXCEPT ![k].Name = <<"a", " ", "b">>]
    /\ pages[k].Name # <<"a", " ", "b">>
    /\ user' = [user EXCEPT !.remote = @ + 1]
    /\ UNCHANGED <<buffer, todoCache, skipNextSaveForUri, saveEvents, schema,
                   credentials, passes, idsDrawn, faults, pull, flagLog, lab>>

(***************************************************************************)
(* One line through the Extractor and the Stamper                          *)
(***************************************************************************)

\* Longest line typed in the single-line specification
MaxLineLen == 5

LabAlphabet == {"//", "TODO", "fixme", ":", " ", "a", "[id:", "]"}

\* Identifiers other than the extracted one handed to the rewrite
SampleIds == {<<"b">>, <<"a", "b">>}

LabLines == UNION {[1..n -> LabAlphabet] : n \in 1..MaxLineLen}

LabFile == "f1"

LabIdle == [phase |-> "off", line |-> <<>>, id |-> <<>>, todo |-> <<>>,
            stamped |-> <<>>, restamped |-> <<>>, todo2 |-> <<>>,
            replaced |-> FALSE]

\* A line the user typed that parseTodos recognises as a marker
LabInit ==
    \E l \in LabLines :
        /\ TodoMatch(l) # 0
        /\ lab = [LabIdle EXCEPT !.phase = "typed", !.line = l]

\* parseTodos reads the line
LabExtract ==
    /\ lab.phase = "typed"
    /\ lab' = [lab EXCEPT !.phase = "extracted",
                          !.todo = ParseLine(lab.line, 0, LabFile, 1)]

\* injectTodoIds rewrites the line, with the extracted identifier or another
LabStamp ==
    /\ lab.phase = "extracted"
    /\ \E id \in {lab.todo.id} \cup SampleIds :
          lab' = [lab EXCEPT !.phase = "stamped", !.id = id,
                             !.stamped = StampLine(lab.line, id)]

\* the rewrite applied again with the same identifier
LabRestamp ==
    /\ lab.phase = "stamped"
    /\ lab' = [lab EXCEPT !.phase = "restamped",
                          !.restamped = StampLine(lab.stamped, lab.id)]

\* the next pass: parseTodos reads the stamped line, injectTodoIds rewrites
\* it with the identifier read and replaces the line only if it differs
LabNextPass ==
    /\ lab.phase = "restamped"
    /\ LET t == ParseLine(lab.stamped, 0, LabFile, 2)
       IN  lab' = [lab EXCEPT !.phase = "reextracted", !.todo2 = t,
                      !.replaced = (lab.stamped # StampLine(lab.stamped, t.id))]

LabNext ==
    /\ LabExtract \/ LabStamp \/ LabRestamp \/ LabNextPass
    /\ UNCHANGED sysvars

\* Most lines of a document handed to parseTodos alone
MaxDocLines == 53

\* A document of n lines: every gap-th line is code, the first two other
\* lines are markers without annotation, the rest markers with one
LongDoc(n, gap) ==
    [i \in 1..n |-> IF i % gap = 0 THEN lnCode
                    ELSE IF i <= 3 THEN lnPlain ELSE lnMid]

\* The document of LabFile is open and parseTodos has not been called
LabOpened ==
    /\ \E n \in 0..MaxDocLines : \E gap \in {1, 2, 20, MaxDocLines + 1} :
          buffer = [f \in {LabFile} |-> LongDoc(n, gap)]
    /\ lab = [phase |-> "opened", todos |-> <<>>]

\* Two documents open in the editor
TwoFiles == {"f1", "f2"}

\* Most calls of deleteTodoFromCode made in a row
MaxDeletes == 2

\* The documents the scan and the two editing functions are called on
EditDocs == { <<>>, <<lnCode>>, <<lnPlain, lnTrail>>, <<lnCode, lnMid>>,
              <<lnMid, lnCode, lnPlain>> }

\* Two documents are open; none of the functions has been called
LabOpenedTwo ==
    /\ buffer \in [TwoFiles -> EditDocs]
    /\ lab = [phase |-> "opened", scan |-> <<>>, docs |-> <<>>,
              edits |-> <<>>]

\* scanDocumentsForTodos(openDocuments, debug) on the open documents
LabScan ==
    /\ lab.phase = "opened"
    /\ lab' = [lab EXCEPT !.phase = "scanned",
                          !.scan = scanDocumentsForTodos(buffer)]
    /\ UNCHANGED sysvars

\* deleteTodoFromCode(todo) for a record of line n of document f, the edit
\* being applied
LabDelete(f, n) ==
    /\ lab.phase \in {"opened", "deleted"}
    /\ Len(lab.edits) < MaxDeletes
    /\ TodoMatch(buffer[f][n]) # 0
    /\ LET todo == [ text |-> trim(buffer[f][n]), line |-> n - 1,
                     id |-> ScanId(buffer[f][n]), uri |-> f ]
       IN  /\ buffer' = DeleteFromCode(buffer, <<todo>>, 1)
           /\ lab' = [lab EXCEPT
                        !.phase = "deleted",
                        !.docs = IF lab.edits = <<>> THEN buffer ELSE @,
                        !.edits = Append(@, todo)]
    /\ UNCHANGED <<todoCache, skipNextSaveForUri, saveEvents, pages, schema,
                   credentials, passes, idsDrawn, user, faults, pull, flagLog>>

\* parseTodos(document, debug) on the document of LabFile
LabParse ==
    /\ lab.phase = "opened"
    /\ lab' = [phase |-> "parsed",
               todos |-> parseTodos(buffer[LabFile], LabFile, 0)]
    /\ UNCHANGED sysvars

(***************************************************************************)
(* Specifications                                                          *)
(***************************************************************************)

\* The extension right after activation with the documents F, n calls of
\* the run having failed already
QuietOn(F, n) ==
    /\ todoCache = [f \in F |-> <<>>]
    /\ skipNextSaveForUri = [f \in F |-> FALSE]
    /\ saveEvents = [f \in F |-> 0]
    /\ flagLog = [f \in F |-> [handled |-> 0, skipped |-> 0, sets |-> 0]]
    /\ pages = <<>>
    /\ passes = <<>>
    /\ idsDrawn = 0
    /\ user = [saves |-> 0, edits |-> 0, pulls |-> 0, remote |-> 0]
    /\ faults = n
    /\ pull = NoPull

Quiet == QuietOn(Files, 0)

Init ==
    /\ Quiet
    /\ buffer \in [Files -> InitialDocs]
    /\ \/ credentials = Configured /\ schema \in SchemaChoices
       \/ credentials \in CredentialChoices /\ schema = FullSchema
    /\ lab = LabIdle

Next ==
    \/ \E f \in DOMAIN buffer : UserSave(f)
    \/ \E f \in DOMAIN buffer : ProgrammaticSave(f)
    \/ \E i \in DOMAIN passes : Fetch(i)
    \/ \E i \in DOMAIN passes : ProcessTodo(i)
    \/ \E i \in DOMAIN passes : DeleteMarked(i)
    \/ \E i \in DOMAIN passes : CacheAndInject(i)
    \/ \E i \in DOMAIN passes : InjectTodoIds(i)
    \/ \E f \in DOMAIN buffer : \E n \in DOMAIN buffer[f] : UserDeleteLine(f, n)
    \/ \E f \in DOMAIN buffer : \E n \in DOMAIN buffer[f] : UserCopyLine(f, n)

Spec == Init /\ [][Next]_vars

InitFiles ==
    /\ QuietOn(TwoFiles, 0)
    /\ buffer = [f \in TwoFiles |->
                   IF f = "f1" THEN <<lnPlain>> ELSE <<lnCode, lnMid>>]
    /\ credentials = Configured
    /\ schema \in SchemaChoices
    /\ lab = LabIdle

NextFiles ==
    \/ \E f \in DOMAIN buffer : UserSave(f)
    \/ \E f \in DOMAIN buffer : ProgrammaticSave(f)
    \/ \E i \in DOMAIN passes : Fetch(i)
    \/ \E i \in DOMAIN passes : ProcessTodo(i)
    \/ \E i \in DOMAIN passes : DeleteMarked(i)
    \/ \E i \in DOMAIN passes : CacheAndInject(i)
    \/ \E i \in DOMAIN passes : InjectTodoIds(i)

SpecFiles == InitFiles /\ [][NextFiles]_vars

\* Saves and edits arrive while passes are in flight: syncTodosOnSave
\* returns at notion.syncTodos(...).then and the host goes on
InitOverlap ==
    /\ QuietOn(Files, MaxFaults)
    /\ buffer = [f \in Files |-> <<lnPlain, lnTrail>>]
    /\ credentials = Configured
    /\ schema \in SchemaChoices
    /\ lab = LabIdle

NextOverlap ==
    \/ \E f \in DOMAIN buffer : Saves(f)
    \/ \E f \in DOMAIN buffer : SaveEvent(f)
    \/ \E i \in DOMAIN passes : Fetch(i)
    \/ \E i \in DOMAIN passes : ProcessTodo(i)
    \/ \E i \in DOMAIN passes : DeleteMarked(i)
    \/ \E i \in DOMAIN passes : CacheAndInject(i)
    \/ \E i \in DOMAIN passes : InjectTodoIds(i)
    \/ \E f \in DOMAIN buffer : \E n \in DOMAIN buffer[f] : DeleteLine(f, n)
    \/ \E f \in DOMAIN buffer : \E n \in DOMAIN buffer[f] : CopyLine(f, n)

SpecOverlap == InitOverlap /\ [][NextOverlap]_vars

\* Saves, changes made in Notion, and the pull command
InitPull ==
    /\ QuietOn(Files, MaxFaults)
    /\ buffer \in [Files -> InitialDocs]
    /\ \/ credentials = Configured /\ schema \in SchemaChoices
       \/ credentials \in CredentialChoices /\ schema = FullSchema
    /\ lab = LabIdle

NextPull ==
    \/ \E f \in DOMAIN buffer : UserSave(f)
    \/ \E f \in DOMAIN buffer : ProgrammaticSave(f)
    \/ \E i \in DOMAIN passes : Fetch(i)
    \/ \E i \in DOMAIN passes : ProcessTodo(i)
    \/ \E i \in DOMAIN passes : DeleteMarked(i)
    \/ \E i \in DOMAIN passes : CacheAndInject(i)
    \/ \E i \in DOMAIN passes : InjectTodoIds(i)
    \/ \E k \in DOMAIN pages : RemoteArchive(k)
    \/ \E k \in DOMAIN pages : RemoteRetext(k)
    \/ SyncNotionToCode
    \/ PullThen

SpecPull == InitPull /\ [][NextPull]_vars

\* A step of a push pass in flight: the continuation of an awaited remote
\* call or buffer call that has returned
PassStep ==
    \E i \in DOMAIN passes :
       \/ Fetch(i)
       \/ ProcessTodo(i)
       \/ DeleteMarked(i)
       \/ CacheAndInject(i)
       \/ InjectTodoIds(i)

\* Saves, remote changes, remote faults and the pull command, every awaited
\* call returning: the host runs the continuation of a call that returned
SpecLive ==
    /\ Init
    /\ [][NextPull]_vars
    /\ WF_vars(PassStep)
    /\ WF_vars(PullThen)

\* One marker line, typed by the user, through extraction and stamping
InitLine ==
    /\ Quiet
    /\ buffer = [f \in Files |-> <<>>]
    /\ credentials = Configured
    /\ schema = FullSchema
    /\ LabInit

SpecLine == InitLine /\ [][LabNext]_vars

\* One document, of up to MaxDocLines lines, through parseTodos
InitParse ==
    /\ QuietOn({LabFile}, 0)
    /\ credentials = Configured
    /\ schema = FullSchema
    /\ LabOpened

SpecParse == InitParse /\ [][LabParse]_vars

\* Two open documents, through the scan of the pull pass or through
\* deleteTodoFromCode
InitEdits ==
    /\ QuietOn(TwoFiles, 0)
    /\ credentials = Configured
    /\ schema = FullSchema
    /\ LabOpenedTwo

NextEdits ==
    \/ LabScan
    \/ \E f \in DOMAIN buffer : \E n \in DOMAIN buffer[f] : LabDelete(f, n)

SpecEdits == InitEdits /\ [][NextEdits]_vars


(***************************************************************************)
(* Properties                                                              *)
(***************************************************************************)

\* The identifiers of the records a pass extracted
TodoIds(p) == {p.todos[k].id : k \in DOMAIN p.todos}

\* The calls of kind op a pass has issued
CallsOf(p, op) == {j \in DOMAIN p.calls : p.calls[j].op = op}

\* The loops of syncTodos are over
Reconciled(p) == p.pc \in {"then", "edit", "done"}

\* C1: the database never holds two pages with the same embedded identifier
\* and no pass issues two create calls for the same identifier.
C1_NoDuplicates ==
    /\ \A m, n \in DOMAIN pages :
          (m # n /\ pages[m].TODO_ID # <<>>)
             => pages[m].TODO_ID # pages[n].TODO_ID
    /\ \A i \in DOMAIN passes :
          \A a, b \in CallsOf(passes[i], "create") :
             a # b => passes[i].calls[a].id # passes[i].calls[b].id

\* C2: a pass never issues a create call for a record whose identifier is in
\* the index built from the snapshot it fetched.
C2_JoinCorrect ==
    \A i \in DOMAIN passes :
       \A j \in CallsOf(passes[i], "create") :
          passes[i].calls[j].id \notin DOMAIN passes[i].index

\* C2 witness: a pass has gone through a record whose identifier its index
\* holds, and has issued an update call for it.
C2_Witness ==
    \E i \in DOMAIN passes :
       \E j \in CallsOf(passes[i], "update") :
          /\ passes[i].calls[j].id \in DOMAIN passes[i].index
          /\ passes[i].calls[j].id \in TodoIds(passes[i])

\* Pass i+1 is the pass after pass i on the same document, and the user has
\* not edited the document between the two extractions
NextUnedited(i) ==
    /\ i \in DOMAIN passes /\ i + 1 \in DOMAIN passes
    /\ passes[i + 1].file = passes[i].file
    /\ passes[i + 1].edits = passes[i].edits

\* Every record of p is a record of q, on the same line with the same
\* identifier
SameIds(p, q) ==
    \A k \in DOMAIN p.todos :
       \E m \in DOMAIN q.todos :
          /\ q.todos[m].line = p.todos[k].line
          /\ q.todos[m].id = p.todos[k].id

\* C3 as claimed: the next pass over an unedited document uses, for every
\* marker, the identifier the pass before used, also when the stamping edit
\* of that pass was declined.
C3_SameIdNextPass ==
    \A i \in DOMAIN passes :
       NextUnedited(i) => SameIds(passes[i], passes[i + 1])

\* C3 as amended: the next pass over an unedited document uses, for every
\* marker, the identifier the pass before used, provided the stamping edit
\* of the pass before was applied before the next pass extracted.
C3_SameIdOnceStamped ==
    \A i \in DOMAIN passes :
       (NextUnedited(i) /\ passes[i].applied)
          => SameIds(passes[i], passes[i + 1])

\* C3 witness: a pass that generated an identifier for a line and stamped
\* it is followed by a pass over the unedited document.
C3_Witness ==
    \E i \in DOMAIN passes :
       /\ NextUnedited(i) /\ passes[i].applied
       /\ \E k \in DOMAIN passes[i].todos :
             /\ EmbeddedId(passes[i].doc0[passes[i].todos[k].line + 1]) = <<>>
             /\ passes[i].doc1 # passes[i].doc0

\* Every remote call of the pass succeeded
AllCallsOk(p) ==
    /\ p.configured /\ p.fetched
    /\ \A j \in DOMAIN p.calls : p.calls[j].ok /\ p.calls[j].described

\* The only marker line of the document carried no identifier when p
\* extracted it
OnlyMarkerUnassigned(p) ==
    /\ Len(p.todos) = 1
    /\ EmbeddedId(p.doc0[p.todos[1].line + 1]) = <<>>

\* What Scenario A expects of the marker lines of the model: the line
\* without its trailing whitespace, the marker text and the kind
ScenarioA(line) ==
    IF line = lnPlain
    THEN [base |-> <<"//", " ", "TODO", ":", " ", "a">>,
          text |-> <<"a">>, kind |-> "TODO"]
    ELSE [base |-> <<"//", "fixme", " ", "b">>,
          text |-> <<"b">>, kind |-> "FIXME"]

\* The pass created exactly one page, with the fields Scenario A names
OneNewRecord(p, line) ==
    /\ Len(pages) = p.npages + 1
    /\ pages[Len(pages)].Name = ScenarioA(line).text
    /\ pages[Len(pages)].Type = ScenarioA(line).kind
    /\ pages[Len(pages)].Status = "Not started"
    /\ pages[Len(pages)].TODO_ID = p.todos[1].id

\* The latest pass has ended on a document whose only marker line, one of
\* the two unassigned lines of the model, carried no identifier, with the
\* configuration present and every remote call succeeding
ScenarioACase(i) ==
    /\ i = Len(passes)
    /\ passes[i].pc = "done"
    /\ OnlyMarkerUnassigned(passes[i])
    /\ passes[i].doc0[passes[i].todos[1].line + 1] \in {lnPlain, lnTrail}
    /\ AllCallsOk(passes[i])

\* C4 as claimed: the pass ends with the line equal to the original line
\* followed by the annotation, and with exactly one new page.
C4_ScenarioA ==
    \A i \in DOMAIN passes :
       ScenarioACase(i) =>
          LET p == passes[i]
              n == p.todos[1].line + 1
          IN  /\ p.doc1[n] =
                    p.doc0[n] \o <<" ", "[id:">> \o p.todos[1].id \o <<"]">>
              /\ OneNewRecord(p, p.doc0[n])

\* C4 as amended: when moreover the database has the TODO_ID property and
\* the host applied the stamping edit, the pass ends with the line equal to
\* the original line without its trailing whitespace followed by the
\* annotation, and with exactly one new page.
C4_ScenarioATrimmed ==
    \A i \in DOMAIN passes :
       (ScenarioACase(i) /\ schema.TODO_ID /\ passes[i].applied) =>
          LET p == passes[i]
              n == p.todos[1].line + 1
          IN  /\ p.doc1[n] = ScenarioA(p.doc0[n]).base
                                \o <<" ", "[id:">> \o p.todos[1].id \o <<"]">>
              /\ OneNewRecord(p, p.doc0[n])

\* C4 witness: such a pass has ended on the line with trailing whitespace.
C4_Witness ==
    \E i \in DOMAIN passes :
       /\ ScenarioACase(i) /\ schema.TODO_ID /\ passes[i].applied
       /\ passes[i].doc0[passes[i].todos[1].line + 1] = lnTrail

\* The pass ended with everything done: configuration present, every remote
\* call succeeding, the stamping edit applied
FullySuccessful(p) == p.pc = "done" /\ AllCallsOk(p) /\ p.applied

\* C5: a pass over the unchanged document, right after a fully successful
\* pass that wrote every field of every record, issues no create, update or
\* archive call once it has fetched the remote state.
C5_SecondPassNoOp ==
    \A i \in DOMAIN passes :
       ( /\ NextUnedited(i)
         /\ FullySuccessful(passes[i])
         /\ schema = FullSchema
         /\ passes[i + 1].doc0 = passes[i].doc1
         /\ passes[i + 1].todos = passes[i].todos
         /\ passes[i + 1].fetched )
       => passes[i + 1].calls = <<>>

\* C6: once the loops of a pass are over, for every cached identifier that
\* the remote index holds and the extraction no longer holds, the pass has
\* issued exactly one archive call, and its target is the page of the index.
C6_ArchiveRemoved ==
    \A i \in DOMAIN passes :
       LET p == passes[i]
       IN  Reconciled(p) =>
             \A id \in CacheKeys(p.cachedTodos) :
                (id \in DOMAIN p.index /\ id \notin TodoIds(p)) =>
                   /\ Cardinality({j \in CallsOf(p, "archive") :
                                      p.calls[j].id = id}) = 1
                   /\ \A j \in CallsOf(p, "archive") :
                         p.calls[j].id = id => p.calls[j].page = p.index[id]

\* C7: a pass issues an archive call for an identifier only if the
\* identifier was in the cache at the start of the pass and is not among the
\* records the pass extracted.
C7_ArchiveOnlyRemoved ==
    \A i \in DOMAIN passes :
       \A j \in CallsOf(passes[i], "archive") :
          /\ passes[i].calls[j].id \in CacheKeys(passes[i].cachedTodos)
          /\ passes[i].calls[j].id \notin TodoIds(passes[i])

\* C8: no step removes a page, and a step of the deletion loop changes of a
\* page nothing but its archived flag.
C8_ArchiveNotDelete ==
    [][ /\ Len(pages') >= Len(pages)
        /\ (\E i \in DOMAIN passes : passes[i].pc = "delete") =>
              /\ Len(pages') = Len(pages)
              /\ \A k \in DOMAIN pages :
                    [pages'[k] EXCEPT !.archived = pages[k].archived]
                       = pages[k] ]_vars

\* C8 witness: a pass has issued an archive call while the database holds a
\* page with the identifier of the call.
C8_Witness ==
    \E i \in DOMAIN passes :
       \E j \in CallsOf(passes[i], "archive") :
          \E k \in DOMAIN pages : pages[k].TODO_ID = passes[i].calls[j].id

\* C9: the rewrite applied twice with one identifier gives the line the
\* first application gave, and the next pass, which rewrites the stamped
\* line with the identifier it reads from it, replaces nothing.
C9_StampIdempotent ==
    /\ lab.phase \in {"restamped", "reextracted"}
          => lab.restamped = lab.stamped
    /\ (lab.phase = "reextracted" /\ lab.id = lab.todo.id) => ~lab.replaced

\* C9 witness: a line that ended in an annotation, was changed by the first
\* rewrite and has gone through the second rewrite and the next pass.
C9_Witness ==
    /\ lab.phase = "reextracted"
    /\ lab.id = lab.todo.id
    /\ TrailingIdMatch(lab.line) # 0
    /\ lab.stamped # lab.line

\* C10: the record read from the stamped line has the text, the kind and
\* the identifier of the record read before stamping.
C10_RoundTrip ==
    (lab.phase = "reextracted" /\ lab.id = lab.todo.id) =>
       /\ lab.todo2.text = lab.todo.text
       /\ lab.todo2.type = lab.todo.type
       /\ lab.todo2.id = lab.todo.id

\* C11: the step that handles the save event of the stamper's own
\* document.save() never starts a push pass.
C11_OwnSaveStartsNoPass ==
    [][ (\E f \in DOMAIN buffer : saveEvents'[f] < saveEvents[f])
           => passes' = passes ]_vars

\* C12: the flag of a file is set only by the step of a pass of that file
\* that applied its stamping edit; every save handler run of a file leaves
\* the flag of the file reset; a save of a file is skipped only on the
\* file's own flag, and leaves the flags of the other files alone; the
\* skipped saves of a file never outnumber the times its flag was set.
C12_FlagOneShot ==
    [][ \A f \in DOMAIN buffer :
          /\ (~skipNextSaveForUri[f] /\ skipNextSaveForUri'[f]) =>
                \E i \in DOMAIN passes :
                   /\ passes[i].file = f /\ passes[i].pc = "edit"
                   /\ i \in DOMAIN passes' /\ passes'[i].applied
          /\ flagLog'[f].handled > flagLog[f].handled
                => ~skipNextSaveForUri'[f]
          /\ flagLog'[f].skipped > flagLog[f].skipped =>
                /\ skipNextSaveForUri[f]
                /\ \A g \in DOMAIN buffer \ {f} :
                      skipNextSaveForUri'[g] = skipNextSaveForUri[g]
          /\ flagLog'[f].skipped <= flagLog'[f].sets ]_vars

\* C12 witness: a save of one file has started a pass while the flag of the
\* other file, set by an applied stamping edit, was waiting for its save.
C12_Witness ==
    \E f, g \in DOMAIN buffer :
       /\ f # g
       /\ skipNextSaveForUri[g]
       /\ flagLog[g].sets > 0
       /\ \E i \in DOMAIN passes :
             passes[i].file = f /\ passes[i].pc = "fetch"

\* Pass i is between reading the cache of its file and the end of its
\* stamping
InFlight(i) == passes[i].pc # "done"

\* C13: no two passes of one file are in flight together.
C13_OnePassPerFile ==
    \A i, j \in DOMAIN passes :
       (i # j /\ passes[i].file = passes[j].file)
          => ~(InFlight(i) /\ InFlight(j))

(***************************************************************************)
(* The pull pass                                                           *)
(***************************************************************************)

\* Task t of the fetched snapshot and line n of document f, as the pull
\* pass read them, carry the same identifier
SameIdentifier(t, f, n) ==
    /\ TodoMatch(pull.docs[f][n]) # 0
    /\ EmbeddedId(pull.docs[f][n]) # <<>>
    /\ EmbeddedId(pull.docs[f][n]) = pull.tasks[t].customId

\* C14: once a pull pass has ended, every marker line of an open document
\* whose identifier is that of a fetched record with status Archived has
\* been classified for local deletion.
C14_PullDeletesArchived ==
    pull.pc = "done" =>
       \A t \in DOMAIN pull.tasks : \A f \in DOMAIN pull.docs :
          \A n \in DOMAIN pull.docs[f] :
             (pull.tasks[t].status = "Archived" /\ SameIdentifier(t, f, n)) =>
                \E d \in DOMAIN pull.deletes :
                   pull.deletes[d].uri = f /\ pull.deletes[d].line = n - 1

\* C15: the step that ends a pull pass rewrites every marker line whose
\* identifier is that of a fetched record that is not archived and whose
\* text differs, so that the text of the line is the remote text, and
\* leaves the line alone when the texts are equal.
C15_PullUpdatesText ==
    [][ (pull.pc = "then" /\ pull'.pc = "done") =>
          \A t \in DOMAIN pull'.tasks : \A f \in DOMAIN pull'.docs :
             \A n \in DOMAIN pull'.docs[f] :
                (/\ pull'.tasks[t].status # "Archived"
                 /\ TodoMatch(buffer[f][n]) # 0
                 /\ EmbeddedId(buffer[f][n]) # <<>>
                 /\ EmbeddedId(buffer[f][n]) = pull'.tasks[t].customId) =>
                   IF pull'.tasks[t].text # todoText(buffer[f][n])
                   THEN /\ n \in DOMAIN buffer'[f]
                        /\ todoText(buffer'[f][n]) = pull'.tasks[t].text
                   ELSE /\ n \in DOMAIN buffer'[f]
                        /\ buffer'[f][n] = buffer[f][n] ]_vars

\* C16: the step that ends a pull pass adds no line to any document, and
\* every line it changes carried the identifier of a record of the fetched
\* snapshot.
C16_PullNoOrphan ==
    [][ (pull.pc = "then" /\ pull'.pc = "done") =>
          \A f \in DOMAIN buffer :
             /\ Len(buffer'[f]) <= Len(buffer[f])
             /\ \A n \in DOMAIN buffer[f] :
                   (n \in DOMAIN buffer'[f] /\ buffer'[f][n] # buffer[f][n]) =>
                      \E t \in DOMAIN pull.tasks :
                         /\ EmbeddedId(buffer[f][n]) # <<>>
                         /\ EmbeddedId(buffer[f][n]) = pull.tasks[t].customId ]_vars

\* A pull pass has ended that fetched a record with the identifier of a
\* marker line and another text or the status Archived
C16_Witness ==
    /\ pull.pc = "done"
    /\ pull.listed
    /\ \E t \in DOMAIN pull.tasks : \E f \in DOMAIN pull.docs :
          \E n \in DOMAIN pull.docs[f] :
             /\ SameIdentifier(t, f, n)
             /\ \/ pull.tasks[t].status = "Archived"
                \/ pull.tasks[t].text = <<"a", " ", "b">>

\* C17: a step of a push pass or of a pull pass leaves every line that
\* carries an identifier in place and carrying that identifier.
C17_IdentifierImmutable ==
    [][ (passes' # passes \/ pull' # pull) =>
          \A f \in DOMAIN buffer : \A n \in DOMAIN buffer[f] :
             EmbeddedId(buffer[f][n]) # <<>> =>
                /\ n \in DOMAIN buffer'[f]
                /\ EmbeddedId(buffer'[f][n]) = EmbeddedId(buffer[f][n]) ]_vars

\* The create and update calls of pass p, in the order issued
Attempted(p) ==
    SelectSeq(p.calls, LAMBDA c : c.op \in {"create", "update"})

\* The records of pass p that syncTodos has to create or update, in order
Needed(p) ==
    SelectSeq(p.todos,
              LAMBDA todo :
                 \/ ~ExistsInNotion(p.index, todo)
                 \/ needsUpdate(notionTaskByPageId(p.tasks, p.index[todo.id]),
                                todo))

\* The records among need whose call of kind op in att succeeded, in order
Succeeded(att, need, op) ==
    LET idx == SelectSeq([j \in 1..Len(att) |-> j],
                         LAMBDA j : att[j].op = op /\ att[j].ok)
    IN  [m \in 1..Len(idx) |-> need[idx[m]]]

\* C18: once the loop of a configured pass is over, one create or update
\* call has been issued for every record that needed one, whether or not
\* an earlier call failed, and the created and updated lists hold exactly
\* the records whose call succeeded.
C18_FailureIsolated ==
    \A i \in DOMAIN passes :
       (passes[i].configured /\ passes[i].pc \in {"delete", "then", "edit", "done"}) =>
          LET att  == Attempted(passes[i])
              need == Needed(passes[i])
          IN  /\ Len(att) = Len(need)
              /\ \A j \in 1..Len(att) : att[j].id = need[j].id
              /\ passes[i].created = Succeeded(att, need, "create")
              /\ passes[i].updated = Succeeded(att, need, "update")

\* A pass whose first call failed and whose second call succeeded
C18_Witness ==
    \E i \in DOMAIN passes :
       /\ passes[i].pc \in {"then", "edit", "done"}
       /\ Len(Attempted(passes[i])) >= 2
       /\ ~Attempted(passes[i])[1].ok
       /\ Attempted(passes[i])[2].ok
       /\ Len(passes[i].created) + Len(passes[i].updated) >= 1

\* C19: once the loops of a pass are over, every record of created has a
\* create call that succeeded, every record of updated an update call that
\* succeeded, and every entry of deleted an archive call that succeeded.
C19_OnlySucceededListed ==
    \A i \in DOMAIN passes :
       Reconciled(passes[i]) =>
          /\ \A k \in DOMAIN passes[i].created :
                \E j \in CallsOf(passes[i], "create") :
                   /\ passes[i].calls[j].id = passes[i].created[k].id
                   /\ passes[i].calls[j].ok
          /\ \A k \in DOMAIN passes[i].updated :
                \E j \in CallsOf(passes[i], "update") :
                   /\ passes[i].calls[j].id = passes[i].updated[k].id
                   /\ passes[i].calls[j].ok
          /\ \A k \in DOMAIN passes[i].deleted :
                \E j \in CallsOf(passes[i], "archive") :
                   /\ passes[i].calls[j].id = passes[i].deleted[k].id
                   /\ passes[i].calls[j].ok

\* C20: while the token or the database id is missing, no push pass has
\* issued the list call or any create, update or archive call (each of
\* which holds the describe-schema call), no pull pass has issued the list
\* call, the database is untouched, and no pass has left an error uncaught.
C20_NoCallUnconfigured ==
    (~credentials.token \/ ~credentials.databaseId) =>
       /\ pages = <<>>
       /\ \A i \in DOMAIN passes :
             /\ passes[i].calls = <<>>
             /\ passes[i].pc \notin {"loop", "delete"}
             /\ passes[i].pc # "fetch" => ~passes[i].configured
             /\ ~passes[i].fetched
             /\ passes[i].created = <<>>
             /\ passes[i].updated = <<>>
             /\ passes[i].deleted = <<>>
       /\ ~pull.listed
       /\ pull.tasks = <<>>
       /\ ~pull.raised

\* Without credentials, a push pass and a pull pass have both ended
C20_Witness ==
    /\ ~credentials.token \/ ~credentials.databaseId
    /\ pull.pc = "done"
    /\ \E i \in DOMAIN passes : passes[i].pc = "done" /\ ~passes[i].configured

\* C21: a configured pass whose fetch failed puts nothing in deleted and
\* issues no archive call.
C21_FailedFetchNoDelete ==
    \A i \in DOMAIN passes :
       (passes[i].configured /\ passes[i].pc # "fetch" /\ ~passes[i].fetched) =>
          /\ passes[i].deleted = <<>>
          /\ CallsOf(passes[i], "archive") = {}

\* The last record of todos with identifier id
LastWithId(todos, id) ==
    todos[CHOOSE k \in DOMAIN todos :
             /\ todos[k].id = id
             /\ \A m \in DOMAIN todos : todos[m].id = id => m <= k]

\* C22: the step in which the continuation of a pass writes the cache
\* leaves, as the entry of the file, one record per identifier extracted by
\* the pass and nothing else: the keys are the identifiers of the extracted
\* records, each key holds the extracted record with that identifier, and
\* an identifier cached before that is no longer extracted is gone.
C22_CacheReplaced ==
    [][ \A i \in DOMAIN passes :
          (passes[i].pc = "then" /\ i \in DOMAIN passes' /\ passes'[i].pc = "edit") =>
             LET c == todoCache'[passes[i].file]
                 t == passes[i].todos
             IN  /\ CacheKeys(c) = {t[k].id : k \in DOMAIN t}
                 /\ Len(c) = Cardinality(CacheKeys(c))
                 /\ \A n \in DOMAIN c : c[n] = LastWithId(t, c[n].id) ]_vars

\* The cache was just written by a pass that no longer extracted an
\* identifier it had found cached
C22_Witness ==
    \E i \in DOMAIN passes :
       /\ passes[i].pc = "edit"
       /\ \E n \in DOMAIN passes[i].cachedTodos :
             /\ \A k \in DOMAIN passes[i].todos :
                   passes[i].todos[k].id # passes[i].cachedTodos[n].id
             /\ passes[i].cachedTodos[n].id \notin CacheKeys(todoCache[passes[i].file])

\* C23: the step in which the continuation of a pass writes the cache
\* leaves the entry of the file as it was when the pass was not configured,
\* and records no identifier whose create or update call failed.
C23_CacheOnlyOnSuccess ==
    [][ \A i \in DOMAIN passes :
          (passes[i].pc = "then" /\ i \in DOMAIN passes' /\ passes'[i].pc = "edit") =>
             /\ ~passes[i].configured =>
                   todoCache'[passes[i].file] = todoCache[passes[i].file]
             /\ \A j \in DOMAIN passes[i].calls :
                   (passes[i].calls[j].op \in {"create", "update"}
                      /\ ~passes[i].calls[j].ok) =>
                      passes[i].calls[j].id
                         \notin CacheKeys(todoCache'[passes[i].file]) ]_vars

\* C24: once a configured pass has ended whose stamping edit was not
\* applied, no identifier the pass generated for a line without annotation
\* is a key of the cache of the file or the TODO_ID of a page.
C24_DeclinedIdDiscarded ==
    \A i \in DOMAIN passes :
       (passes[i].pc = "done" /\ passes[i].configured /\ ~passes[i].applied) =>
          \A k \in DOMAIN passes[i].todos :
             EmbeddedId(passes[i].doc0[passes[i].todos[k].line + 1]) = <<>> =>
                /\ passes[i].todos[k].id
                      \notin CacheKeys(todoCache[passes[i].file])
                /\ \A n \in DOMAIN pages :
                      pages[n].TODO_ID # passes[i].todos[k].id

\* C25: while a configured pass has fetched the snapshot and has not yet
\* reached its stamping edit, every line the pass generated an identifier
\* for already carries that identifier in the document.
C25_StampBeforeFetch ==
    \A i \in DOMAIN passes :
       (passes[i].configured /\ passes[i].pc \in {"loop", "delete", "then", "edit"}) =>
          \A k \in DOMAIN passes[i].todos :
             LET n == passes[i].todos[k].line + 1
             IN  (n \in DOMAIN buffer[passes[i].file]
                    /\ EmbeddedId(passes[i].doc0[n]) = <<>>) =>
                    EmbeddedId(buffer[passes[i].file][n]) = passes[i].todos[k].id

\* The lines (0-based) of the document of LabFile that the tag pattern
\* matches
Matching == {n \in 0..(Len(buffer[LabFile]) - 1) :
                TodoMatch(buffer[LabFile][n + 1]) # 0}

\* The records parseTodos returned are at most maxTodos, lie on matching
\* lines in strictly ascending line order, and are those of the first
\* maxTodos matching lines
FirstMatchingLines ==
    /\ Len(lab.todos) <= maxTodos
    /\ \A k \in DOMAIN lab.todos : lab.todos[k].line \in Matching
    /\ \A j, k \in DOMAIN lab.todos :
          j < k => lab.todos[j].line < lab.todos[k].line
    /\ \A n \in Matching :
          Cardinality({m \in Matching : m < n}) < maxTodos =>
             \E k \in DOMAIN lab.todos : lab.todos[k].line = n

\* C26: the records parseTodos returned are at most maxTodos, lie on
\* matching lines in strictly ascending line order (so no line has two),
\* and are the records of the first maxTodos matching lines: a matching
\* line is left out only when maxTodos matching lines precede it; and the
\* call leaves the document as it was.
C26_ExtractorBounded ==
    /\ [](lab.phase = "parsed" => FirstMatchingLines)
    /\ [][(lab.phase = "opened" /\ lab'.phase = "parsed") =>
             buffer' = buffer]_vars

\* parseTodos has returned on a document with more matching lines than
\* maxTodos
C26_Witness ==
    /\ lab.phase = "parsed"
    /\ Cardinality(Matching) > maxTodos
    /\ Len(lab.todos) = maxTodos

\* No update or archive call of a push pass names a page without embedded
\* identifier, no edit classified by a pull pass is for a line without
\* identifier, and no pull pass has left an error uncaught
JoinedByIdentifier ==
    /\ \A i \in DOMAIN passes : \A j \in DOMAIN passes[i].calls :
          passes[i].calls[j].op \in {"update", "archive"} =>
             /\ passes[i].calls[j].id # <<>>
             /\ passes[i].calls[j].page \in DOMAIN pages =>
                   pages[passes[i].calls[j].page].TODO_ID # <<>>
    /\ \A d \in DOMAIN pull.deletes : pull.deletes[d].id # <<>>
    /\ \A u \in DOMAIN pull.updates : pull.updates[u].todo.id # <<>>
    /\ ~pull.raised

CallsInOrder ==
    \A i \in DOMAIN passes :
       /\ passes[i].pc = "fetch" => passes[i].calls = <<>>
       /\ passes[i].pc \in {"delete", "then", "edit", "done"} /\ passes[i].configured
             => passes[i].k = Len(passes[i].todos) + 1
       /\ \A j, k \in DOMAIN passes[i].calls :
             (j < k /\ passes[i].calls[j].op = "archive") =>
                passes[i].calls[k].op = "archive"

\* C28: the calls of every pass are in the order fetch, creates and
\* updates, archives, and a step of a pass in one of its loops issues at
\* most one call, after the calls issued before it have returned.
C28_CallsSequential ==
    /\ []CallsInOrder
    /\ [][\A i \in DOMAIN passes :
             (passes[i].pc \in {"loop", "delete"} /\ Len(passes') = Len(passes)) =>
                /\ Len(passes'[i].calls) <= Len(passes[i].calls) + 1
                /\ SubSeq(passes'[i].calls, 1, Len(passes[i].calls))
                      = passes[i].calls]_vars

\* A pass has issued two create or update calls and then an archive call
C28_Witness ==
    \E i \in DOMAIN passes :
       /\ Len(passes[i].calls) >= 3
       /\ passes[i].calls[1].op \in {"create", "update"}
       /\ passes[i].calls[2].op \in {"create", "update"}
       /\ passes[i].calls[Len(passes[i].calls)].op = "archive"

\* The cache a pass read and the deletions it marked are of its own file:
\* every record it found cached, and every record it marked for deletion,
\* was extracted from the file of the pass, and the marked ones are among
\* those it found cached
OwnCacheOnly ==
    \A i \in DOMAIN passes :
       /\ \A n \in DOMAIN passes[i].cachedTodos :
             passes[i].cachedTodos[n].filePath = passes[i].file
       /\ \A d \in DOMAIN passes[i].deleted :
             /\ passes[i].deleted[d].filePath = passes[i].file
             /\ \E n \in DOMAIN passes[i].cachedTodos :
                   passes[i].cachedTodos[n] = passes[i].deleted[d]

\* C29: a pass reads the cache entry of its own file only and marks for
\* deletion only what it read there, and the cache entry of a file changes
\* only in the step in which a pass of that file writes it.
C29_CachePerFile ==
    /\ []OwnCacheOnly
    /\ [][\A g \in DOMAIN buffer :
             /\ todoCache'[g] # todoCache[g] =>
                   \E i \in DOMAIN passes :
                      /\ passes[i].file = g /\ passes[i].pc = "then"
                      /\ i \in DOMAIN passes' /\ passes'[i].pc = "edit"
             /\ (Len(passes') > 0 /\ passes'[Len(passes')].pc = "fetch"
                   /\ passes' # passes /\ passes'[Len(passes')].file = g) =>
                   passes'[Len(passes')].cachedTodos = todoCache[g]]_vars

\* A pass of one document has marked a cached identifier for deletion and
\* written its cache while the cache of the other document holds a record
C29_Witness ==
    \E i \in DOMAIN passes : \E g \in DOMAIN buffer :
       /\ g # passes[i].file
       /\ passes[i].pc \in {"edit", "done"}
       /\ passes[i].deleted # <<>>
       /\ todoCache[g] # <<>>
       /\ todoCache[passes[i].file] # <<>>

\* C30: a step of a pull pass changes no page, logs no call of a push
\* pass, leaves the cache of every file and every save-suppression flag as
\* they were, and saves no document.
C30_PullLocalOnly ==
    [][ pull' # pull =>
          /\ pages' = pages
          /\ passes' = passes
          /\ todoCache' = todoCache
          /\ skipNextSaveForUri' = skipNextSaveForUri
          /\ saveEvents' = saveEvents ]_vars

\* A pull pass has ended that listed a database holding a page, while the
\* cache of a file holds a record
C30_Witness ==
    /\ pull.pc = "done"
    /\ pull.listed
    /\ pull.tasks # <<>>
    /\ \E f \in DOMAIN buffer : todoCache[f] # <<>>

\* No page holds an optional field that the schema of the database lacks
OnlySchemaFields ==
    \A n \in DOMAIN pages :
       /\ pages[n].FilePath # "" => schema.FilePath
       /\ pages[n].LineNumber # NoValue => schema.LineNumber
       /\ pages[n].TODO_ID # <<>> => schema.TODO_ID

\* The page the call c wrote, in the database pgs
Written(pgs, c) == pgs[IF c.op = "create" THEN Len(pgs) ELSE c.page]

\* C31: no page ever holds an optional field the schema lacks; and a step
\* that issues a create or update call which the remote accepts writes the
\* essential fields of the record, writes each optional field the schema
\* was described to have, and writes no optional field when the schema
\* could not be described.
C31_SchemaAwareFields ==
    /\ []OnlySchemaFields
    /\ [][\A i \in DOMAIN passes :
             (passes[i].pc = "loop" /\ i \in DOMAIN passes'
                /\ Len(passes'[i].calls) = Len(passes[i].calls) + 1) =>
                LET c    == passes'[i].calls[Len(passes'[i].calls)]
                    todo == passes[i].todos[passes[i].k]
                IN  c.ok =>
                       LET pg == Written(pages', c)
                       IN  /\ pg.Name = todo.text /\ pg.Type = todo.type
                           /\ pg.Status = todo.status
                           /\ (c.described /\ schema.FilePath) =>
                                 pg.FilePath = todo.filePath
                           /\ (c.described /\ schema.LineNumber) =>
                                 pg.LineNumber = RichText(todo.lineNumber)
                           /\ (c.described /\ schema.TODO_ID) =>
                                 pg.TODO_ID = todo.id
                           /\ (~c.described /\ c.op = "create") =>
                                 /\ pg.FilePath = "" /\ pg.LineNumber = NoValue
                                 /\ pg.TODO_ID = <<>>
                           /\ (~c.described /\ c.op = "update") =>
                                 /\ pg.FilePath = pages[c.page].FilePath
                                 /\ pg.LineNumber = pages[c.page].LineNumber
                                 /\ pg.TODO_ID = pages[c.page].TODO_ID]_vars

\* A call was accepted although the schema could not be described, in a
\* database that lacks an optional property
C31_Witness ==
    /\ ~(schema.FilePath /\ schema.LineNumber /\ schema.TODO_ID)
    /\ pages # <<>>
    /\ \E i \in DOMAIN passes : \E j \in DOMAIN passes[i].calls :
          passes[i].calls[j].ok /\ ~passes[i].calls[j].described

\* C32: no pass both issues a create call for an identifier and holds the
\* cached record of that identifier in its deletion list or issues an
\* archive call for it.
C32_NoCreateAndDelete ==
    \A i \in DOMAIN passes : \A j \in CallsOf(passes[i], "create") :
       /\ \A d \in DOMAIN passes[i].deleted :
             passes[i].deleted[d].id # passes[i].calls[j].id
       /\ \A k \in CallsOf(passes[i], "archive") :
             passes[i].calls[k].id # passes[i].calls[j].id

\* C33: a run of the save handler that is not skipped, on a document
\* without any marker whose cache entry holds the identifier of a page,
\* starts a pass that has the cached records to archive.
C33_LastMarkerRemoved ==
    [][ \A f \in DOMAIN buffer :
          (/\ flagLog'[f].handled > flagLog[f].handled
           /\ flagLog'[f].skipped = flagLog[f].skipped
           /\ \A n \in DOMAIN buffer[f] : TodoMatch(buffer[f][n]) = 0
           /\ \E n \in DOMAIN pages :
                 pages[n].TODO_ID \in CacheKeys(todoCache[f])) =>
              /\ Len(passes') > 0
              /\ passes' # passes
              /\ passes'[Len(passes')].file = f
              /\ passes'[Len(passes')].cachedTodos = todoCache[f] ]_vars

\* C34: after deleteTodoFromCode has been applied for records of distinct
\* lines, each document has one line fewer per record deleted in it, and
\* its lines are the lines it had that were not deleted, in their order.
C34_DeleteRemovesLine ==
    lab.phase = "deleted" =>
       \A f \in DOMAIN buffer :
          LET gone == {lab.edits[k].line + 1 :
                          k \in {m \in DOMAIN lab.edits : lab.edits[m].uri = f}}
              kept == SelectSeq([n \in 1..Len(lab.docs[f]) |-> n],
                                LAMBDA n : n \notin gone)
          IN  /\ Len(buffer[f]) = Len(lab.docs[f]) - Cardinality(gone)
              /\ buffer[f] = [m \in 1..Len(kept) |-> lab.docs[f][kept[m]]]

\* C35: a pull pass that listed the database and has ended did not throw
\* in its then-callback: the scan returned and the reconciliation ran.
C35_PullReachesReconcile ==
    (pull.pc = "done" /\ pull.listed) => ~pull.threw

\* C36: the records scanDocumentsForTodos has collected hold, for every
\* document, at most one record per line and at most maxTodos records.
C36_ScanBounded ==
    lab.phase = "scanned" =>
       \A f \in DOMAIN buffer :
          LET own == {k \in DOMAIN lab.scan.todos : lab.scan.todos[k].uri = f}
          IN  /\ Cardinality(own) <= maxTodos
              /\ \A j, k \in own :
                    j # k => lab.scan.todos[j].line # lab.scan.todos[k].line

\* C37: a push pass in flight reaches its end and a pull pass that has
\* fetched reaches its end, when every awaited call returns.
C37_PassesTerminate ==
    /\ (~NoPassInFlight) ~> NoPassInFlight
    /\ (pull.pc = "then") ~> (pull.pc = "done")

\* A push pass and a pull pass have ended, the scan of the pull having met a
\* marker, and a call of the push pass having failed
C37_Witness ==
    /\ passes # <<>>
    /\ NoPassInFlight
    /\ pull.pc = "done"
    /\ \E f \in DOMAIN pull.docs : FirstMarker(pull.docs[f], 1) # 0
    /\ \E i \in DOMAIN passes : \E c \in DOMAIN passes[i].calls :
          ~passes[i].calls[c].ok

\* C38: a page whose Status is "Archived" keeps that Status in every step,
\* the steps of push passes included.
C38_ArchivedTerminal ==
    [][\A k \in DOMAIN pages :
          pages[k].Status = "Archived" => pages'[k].Status = "Archived"]_vars

\* Line a is line b, up to an identifier stamped at its end
SameLine(a, b) == trimEnd(StripTrailingId(a)) = trimEnd(StripTrailingId(b))

\* C39: an edit of injectTodoIds that is applied rewrites, for every record
\* of the pass, the line the record was extracted from, and that line is a
\* marker line.
C39_StampOnOwnLine ==
    [][\A i \in DOMAIN passes :
          (/\ i \in DOMAIN passes'
           /\ passes[i].pc = "edit"
           /\ passes'[i].pc = "done"
           /\ passes'[i].applied)
          => \A k \in DOMAIN passes[i].todos :
                LET n == passes[i].todos[k].line + 1
                    f == passes[i].file
                IN  /\ TodoMatch(buffer[f][n]) # 0
                    /\ SameLine(buffer[f][n], passes[i].doc0[n])]_vars

=============================================================================
